---- MODULE Spec2Model ----
(***************************************************************************)
(* Voice Notes: the recording / playback session engine.                   *)
(*                                                                         *)
(*   AudioRecorder      (capture controller)                               *)
(*   WaveformVisualizer (render loop)                                      *)
(*   UIController       (playback session, two progress surfaces)          *)
(*   VoiceNotesApp      (orchestrator wiring the buttons to the above)     *)
(*                                                                         *)
(* The program is single threaded and event driven.  One step of the model *)
(* is one turn of the host's event loop: an event handler, or the          *)
(* continuation of an async function after the promise it awaits settles,  *)
(* run up to its next await of a host operation (microtask continuations   *)
(* run in the same turn).  An async function that is suspended is a record *)
(* of `tasks`.                                                             *)
(*                                                                         *)
(* Seven specifications share the actions: SpecRecorder (the capture       *)
(* controller under a client that awaits each call), SpecSession (the same *)
(* against the clock), SpecApp (the page: the user's gestures and the      *)
(* host's events over all four objects), SpecTimer (one capture session of *)
(* the page against the clock), SpecPlayer (the playback session alone,    *)
(* with its progress displays and seeks), SpecViz (the render loop under   *)
(* any order of calls of its methods) and SpecStore (the storage under any *)
(* order of saves, updates and deletions).                                 *)
(***************************************************************************)
EXTENDS Integers, Sequences, FiniteSets, TLC

(* ------------------------------ bounds -------------------------------- *)
\* MediaRecorder objects alive at the same time (recording, or with an event
\* still to be delivered, or referenced by the AudioRecorder)
MaxMR == 2
\* microphone streams live at the same time
MaxStreams == 2
\* fragments kept in the chunk buffer
MaxChunks == 1
\* clock ticks in one run
MaxTime == 3
\* async functions suspended at the same time
MaxTasks == 2
\* recordings ever saved in one run (their ids are never reused)
MaxRec == 2
\* the longest clip played, in seconds (rounded up)
MaxPos == 2
\* intervals of setInterval running at the same time
MaxTimers == 2
\* clicks and keys of the user in one run
MaxGestures == 5
\* object URLs counted (the count stays at MaxUrls once it is reached)
MaxUrls == 2
\* frame callbacks of the progress loop counted (the count stays at MaxLoops
\* once it is reached)
MaxLoops == 2

\* clock ticks in one second (Date.now() counts milliseconds; the duration is
\* the floor of the elapsed time in seconds)
TicksPerSecond == 2

VARIABLES
    rec,      \* the AudioRecorder object
    host,     \* the host's media objects: MediaRecorders, streams, getUserMedia
    now,      \* the host clock (Date.now()), in ticks
    tasks,    \* suspended async functions
    hist,     \* the last operation and what it returned
    app,      \* the VoiceNotesApp object and the recording modal's elements
    ui,       \* the UIController object and the note cards' play buttons
    aud,      \* the audio element (#audioPlayer)
    viz,      \* the WaveformVisualizer object and its canvas
    store     \* the recordings in localStorage

appVars == <<app, ui, aud, viz, store>>
vars == <<rec, host, now, tasks, hist, app, ui, aud, viz, store>>

(* ------------------------------ the host ------------------------------ *)
MRs == 1..MaxMR
Streams == 1..MaxStreams
TaskIds == 1..MaxTasks


\* the reasons getUserMedia rejects with (DOMException names)
DenyNames == {"NotAllowedError", "NotFoundError"}

\* a suspended async function: k is what it awaits, who is the function, id
\* the MediaRecorder or the recording it is about
NoTask == [k |-> "none", who |-> "none", id |-> 0]

InitHost ==
    [ mr       |-> [g \in MRs |-> [state |-> "none", onstop |-> 0, pending |-> 0]],
      streams  |-> {},
      gumPending |-> 0 ]

\* MediaRecorder: the object the next `new MediaRecorder` yields
CanCreateMR(h) == \E g \in MRs : h.mr[g].state = "none"

\* getUserMedia: the stream the next grant yields.  host.streams are the
\* streams with a live track; a stream whose tracks are stopped is gone
CanGrant(h) == \E s \in Streams : s \notin h.streams

FreeTask(ts) == CHOOSE t \in TaskIds : ts[t] = NoTask /\ \A t2 \in TaskIds : t2 < t => ts[t2] # NoTask
CanSuspend(ts) == \E t \in TaskIds : ts[t] = NoTask

\* a MediaRecorder that is inactive, has no event to deliver and is not the
\* one the AudioRecorder references (keep) can do nothing more: its slot is free
Collect(h, keep) ==
    [h EXCEPT !.mr = [g \in MRs |->
        IF g # keep /\ h.mr[g].state = "inactive" /\ h.mr[g].pending = 0
          THEN [state |-> "none", onstop |-> 0, pending |-> 0]
          ELSE h.mr[g]]]

\* MediaRecorder.stop(): the state becomes inactive at once; a task is queued that
\* fires a last dataavailable (pending = 2) and then stop (pending = 1)
MR_stop(h, g) ==
    [h EXCEPT !.mr[g].state = "inactive", !.mr[g].pending = 2]

(* --------------------------- AudioRecorder ---------------------------- *)
InitRec ==
    [ mediaRecorder      |-> 0,
      audioChunks        |-> <<>>,
      stream             |-> 0,
      recordingStartTime |-> -1,
      isRecording        |-> FALSE,
      isPaused           |-> FALSE ]

\* what a method returned: success (or the boolean of pause/resume), the error
\* text's class, and the stop result's duration and assembled chunks
Ret(ok, err, dur, blob) == [success |-> ok, error |-> err, duration |-> dur, blob |-> blob]
RetOk == Ret(TRUE, "", -1, <<>>)
RetFalse == Ret(FALSE, "", -1, <<>>)
RetErr(e) == Ret(FALSE, e, -1, <<>>)

\* a catch branch that does not look at error.name
PermissionError_unclassified(name) == "DeviceUnavailable"

\* requestPermission, catch branch: the message chosen from error.name
PermissionError(name) ==
    IF name = "NotAllowedError" THEN "PermissionDenied" ELSE "DeviceUnavailable"

\* requestPermission up to its await: getUserMedia is asked, whatever is held
requestPermission_call(h) == [h EXCEPT !.gumPending = @ + 1]

\* requestPermission after getUserMedia resolved: the new stream is stored
requestPermission_granted(r, h) ==
    LET s == CHOOSE s1 \in Streams : /\ s1 \notin h.streams
                                      /\ \A s2 \in Streams : s2 < s1 => s2 \in h.streams IN
    [ rec  |-> [r EXCEPT !.stream = s],
      host |-> [h EXCEPT !.streams = @ \cup {s}, !.gumPending = @ - 1],
      ret  |-> RetOk ]

\* requestPermission after getUserMedia rejected
requestPermission_denied(r, h, name) ==
    [ rec |-> r, host |-> [h EXCEPT !.gumPending = @ - 1],
      ret |-> RetErr(PermissionError(name)) ]

\* a guard that looks at the paused flag too: a paused session is restarted
startRecording_refused_unlessPaused(r) == r.isRecording /\ ~r.isPaused

\* startRecording, guard: the failure returned at once while recording
startRecording_refused(r) == r.isRecording

\* startRecording from "Reset chunks" on, the stream being held.  fail is the
\* host's answer: "ok", "ctor" (new MediaRecorder throws) or "start"
\* (mediaRecorder.start throws); both land in the catch and return the failure
startRecording_body(r, h, t, fail) ==
    LET r1 == [r EXCEPT !.audioChunks = <<>>]
        g  == CHOOSE g1 \in MRs : /\ h.mr[g1].state = "none"
                                   /\ \A g2 \in MRs : g2 < g1 => h.mr[g2].state # "none"
        h1 == [h EXCEPT !.mr[g] = [state |-> "inactive", onstop |-> 0, pending |-> 0]]
    IN  CASE fail = "ctor"  -> [rec |-> r1, host |-> h, ret |-> RetErr("StartFailed")]
          [] fail = "start" -> [rec |-> [r1 EXCEPT !.mediaRecorder = g],
                                host |-> Collect(h1, g),
                                ret |-> RetErr("StartFailed")]
          [] OTHER ->
               [ rec  |-> [r1 EXCEPT !.mediaRecorder = g,
                                     !.recordingStartTime = t,
                                     !.isRecording = TRUE,
                                     !.isPaused = FALSE],
                 host |-> Collect([h1 EXCEPT !.mr[g].state = "recording"], g),
                 ret  |-> RetOk ]

\* a pause that does not look at the paused flag
pauseRecording_ignoresPaused(r, h) ==
    IF ~r.isRecording \/ h.mr[r.mediaRecorder].state = "inactive"
      THEN [rec |-> r, host |-> h, ret |-> RetFalse]
      ELSE [ rec  |-> [r EXCEPT !.isPaused = TRUE],
             host |-> [h EXCEPT !.mr[r.mediaRecorder].state = "paused"],
             ret  |-> RetOk ]

\* pauseRecording; mediaRecorder.pause() throws on an inactive recorder
pauseRecording(r, h) ==
    IF ~r.isRecording \/ r.isPaused
      THEN [rec |-> r, host |-> h, ret |-> RetFalse]
    ELSE IF h.mr[r.mediaRecorder].state = "inactive"
      THEN [rec |-> r, host |-> h, ret |-> RetFalse]
    ELSE [ rec  |-> [r EXCEPT !.isPaused = TRUE],
           host |-> [h EXCEPT !.mr[r.mediaRecorder].state = "paused"],
           ret  |-> RetOk ]

\* a resume that restarts the clock of the session (paused spans excluded)
resumeRecording_resetsStart(r, h) ==
    IF ~r.isRecording \/ ~r.isPaused \/ h.mr[r.mediaRecorder].state = "inactive"
      THEN [rec |-> r, host |-> h, ret |-> RetFalse]
      ELSE [ rec  |-> [r EXCEPT !.isPaused = FALSE, !.recordingStartTime = now],
             host |-> [h EXCEPT !.mr[r.mediaRecorder].state = "recording"],
             ret  |-> RetOk ]

\* a resume that does not look at the paused flag
resumeRecording_ignoresPaused(r, h) ==
    IF ~r.isRecording \/ h.mr[r.mediaRecorder].state = "inactive"
      THEN [rec |-> r, host |-> h, ret |-> RetFalse]
      ELSE [ rec  |-> [r EXCEPT !.isPaused = FALSE],
             host |-> [h EXCEPT !.mr[r.mediaRecorder].state = "recording"],
             ret  |-> RetOk ]

\* resumeRecording; mediaRecorder.resume() throws on an inactive recorder
resumeRecording(r, h) ==
    IF ~r.isRecording \/ ~r.isPaused
      THEN [rec |-> r, host |-> h, ret |-> RetFalse]
    ELSE IF h.mr[r.mediaRecorder].state = "inactive"
      THEN [rec |-> r, host |-> h, ret |-> RetFalse]
    ELSE [ rec  |-> [r EXCEPT !.isPaused = FALSE],
           host |-> [h EXCEPT !.mr[r.mediaRecorder].state = "recording"],
           ret  |-> RetOk ]

\* stopRecording, guard: the result returned at once when not recording
stopRecording_refused(r) == ~r.isRecording

\* stopRecording, promise executor: onstop is replaced by the handler that
\* resolves the promise of task t, then mediaRecorder.stop() is called
stopRecording_executor(r, h, t) ==
    LET g  == r.mediaRecorder
        h1 == [h EXCEPT !.mr[g].onstop = t]
    IN  IF h.mr[g].state = "inactive" THEN h1 ELSE MR_stop(h1, g)

\* getCurrentDuration / the duration of the onstop handler
Duration(r, t) == (t - r.recordingStartTime) \div TicksPerSecond

\* an onstop handler that leaves the recording flag set
stopRecording_onstop_keepsFlag(r, t) ==
    [ rec |-> [r EXCEPT !.isPaused = FALSE],
      ret |-> Ret(TRUE, "", Duration(r, t), r.audioChunks) ]

\* the onstop handler stopRecording installs
stopRecording_onstop(r, t) ==
    [ rec |-> [r EXCEPT !.isRecording = FALSE, !.isPaused = FALSE],
      ret |-> Ret(TRUE, "", Duration(r, t), r.audioChunks) ]

\* ondataavailable: a fragment of recorder g is pushed
ondataavailable(r, g) == [r EXCEPT !.audioChunks = Append(@, g)]

\* a cleanup that forgets the stream's tracks
cleanup_keepsTracks(r, h) ==
    LET g  == r.mediaRecorder
        h1 == IF g # 0 /\ h.mr[g].state # "inactive" THEN MR_stop(h, g) ELSE h
    IN  [ rec  |-> [r EXCEPT !.stream = 0, !.audioChunks = <<>>,
                             !.isRecording = FALSE, !.isPaused = FALSE],
          host |-> h1 ]

\* cleanup
cleanup(r, h) ==
    LET g  == r.mediaRecorder
        h1 == IF g # 0 /\ h.mr[g].state # "inactive" THEN MR_stop(h, g) ELSE h
        h2 == IF r.stream # 0 THEN [h1 EXCEPT !.streams = @ \ {r.stream}] ELSE h1
    IN  [ rec  |-> [r EXCEPT !.stream = 0, !.audioChunks = <<>>,
                             !.isRecording = FALSE, !.isPaused = FALSE],
          host |-> h2 ]

(* ------------------------- history of the run ------------------------- *)
\* op: the step taken last; ret: what the call returned (or resolved with);
\* startedAt: the clock at the last successful start(); stopped: a stop() has
\* resolved and no start() succeeded since; paused: pause() succeeded in the
\* session; resumed: resume() succeeded in the session; gestures: the clicks
\* and keys of the user on the page so far; reason: the error.name of the
\* getUserMedia rejection handled in the step taken last; ended: the stream
\* of a capture session the user asked to end (Done, Cancel, Escape) and that
\* is not released yet, 0 when there is none; arg: the input of the gesture
\* taken last (the id of the card played, the offset of the pointer on the
\* track sought), 0 when it has none; wrote: the ids of the cards whose
\* progress elements updatePlaybackProgress wrote in the step taken last
InitHist ==
    [ op |-> "init", ret |-> RetOk, startedAt |-> -1, stopped |-> FALSE,
      paused |-> FALSE, resumed |-> FALSE, gestures |-> 0, reason |-> "",
      ended |-> 0, arg |-> 0, wrote |-> {} ]

Did(h, o, r) ==
    [h EXCEPT !.op = o, !.ret = r, !.reason = "", !.arg = 0, !.wrote = {}]

(***************************************************************************)
(* The objects of the application.  In the operators below m is the whole  *)
(* program state as one record; a handler is a function from m to m, so    *)
(* that a handler calling another is a composition.  m.err is the message  *)
(* shown to the user in this turn, m.threw an exception on its way up, and *)
(* m.over says that the turn needed more objects than the bounds allow;    *)
(* m.arg and m.wrote are the turn's entries for the history.               *)
(***************************************************************************)
RecIds == 1..MaxRec

InitApp ==
    [ isRecording    |-> FALSE,
      isPaused       |-> FALSE,
      timerInterval  |-> FALSE,   \* this.timerInterval is set
      timers         |-> 0,       \* intervals of setInterval not cleared
      timer          |-> 0,       \* #timerDisplay, in seconds
      modal          |-> "initial",  \* "initial": #startRecordingBtn shown;
                                     \* "interface": #recordingInterface shown
      pausedClass    |-> FALSE,   \* #pauseBtn carries the class 'paused'
      recordBtn      |-> FALSE,   \* #recordBtn is displayed
      doneBtn        |-> TRUE ]   \* #doneBtn is displayed

(* ------------------------- numbers of the page ------------------------ *)
\* Positions and durations of the audio element are counted in quarters of
\* a second, so that the middle of a clip of one second and a half is a
\* whole number.
PosPerSecond == 4
\* NaN and Infinity are the two values of a JavaScript number that are not
\* finite; no arithmetic is done on them below, they are only compared.
NaN == 0 - 1
Infinity == 0 - 2
isFinite(x) == x >= 0
\* a number used as a condition
Truthy(x) == x # 0 /\ x # NaN
Min(a, b) == IF a < b THEN a ELSE b
Max(a, b) == IF a > b THEN a ELSE b

\* a ratio n/d of two naturals, d > 0, in lowest terms: the width of a
\* progress fill as a fraction of its track
RECURSIVE GCD(_, _)
GCD(a, b) == IF b = 0 THEN a ELSE GCD(b, a % b)
Frac(n, d) == [ n |-> n \div GCD(n, d), d |-> d \div GCD(n, d) ]
Zero == Frac(0, 1)

\* formatDuration(Math.floor(t)), t in quarters: minutes and seconds as the two
\* numbers the string MM:SS is made of; of Infinity the string is
\* "Infinity:NaN"
formatDuration(t) ==
    IF t = Infinity THEN << Infinity, NaN >>
    ELSE << (t \div PosPerSecond) \div 60, (t \div PosPerSecond) % 60 >>

\* fill, label: .progress-fill and .current-time of each card; sticky: the
\* fill and the two labels of #inlineMobilePlayer; loop: the frame callbacks
\* of updateProgressLoop that are requested and have not run
InitUI ==
    [ currentPlayingId |-> 0,
      currentDuration  |-> 0,
      isMobile         |-> FALSE,
      mobileActive     |-> FALSE,    \* #inlineMobilePlayer carries 'active'
      hooks            |-> {},       \* ids with a loadedmetadata hook registered
      icon             |-> [i \in RecIds |-> "play"],  \* the cards' play buttons
      fill             |-> [i \in RecIds |-> Zero],
      label            |-> [i \in RecIds |-> formatDuration(0)],
      sticky           |-> [ fill |-> Zero, time |-> formatDuration(0),
                             duration |-> formatDuration(0) ],
      loop             |-> 0,
      drag             |-> 0 ]       \* currentProgressBar while isDragging

\* awaited: the id of the ui.playRecording call suspended on the promise of
\* audioPlayer.play(), 0 when none is (a later pause or load rejects the
\* promise, so there is one at most); time: currentTime; duration: the
\* duration the element reports; len: the length of the clip loaded, 0 until
\* its metadata is; tu: a timeupdate event is queued; urls: the object URLs
\* created for the element's src and not revoked
InitAud ==
    [ paused |-> TRUE, src |-> 0, ready |-> FALSE, time |-> 0, awaited |-> 0,
      duration |-> NaN, len |-> 0, tu |-> FALSE, urls |-> 0 ]

InitViz ==
    [ isAnimating |-> FALSE,
      animationId |-> FALSE,      \* this.animationId is set
      frames      |-> 0,          \* frame callbacks requested and not yet run
      lastPending |-> FALSE,      \* the callback animationId names is among them
      analyser    |-> FALSE,      \* this.analyser is set
      paint       |-> "blank",    \* what the canvas shows: blank, idle, wave
      audioContext |-> "null",    \* this.audioContext: null, or the state of
                                  \* the context it references: open, closed
      observing   |-> TRUE ]      \* the ResizeObserver observes the canvas

\* localStorage['voiceNotes']: the array of recordings, newest first; of a
\* recording its id (the value of Date.now() when it was saved), its duration
\* in whole seconds and its star are kept.  next: the value Date.now() has
\* once the clock has advanced beyond every id given so far.  One recording
\* of one second is in localStorage when the page loads
InitStore == [ recs |-> << [id |-> 1, duration |-> 1, starred |-> FALSE] >>,
               next |-> 2 ]

Cur ==
    [ rec |-> rec, host |-> host, tasks |-> tasks, app |-> app, ui |-> ui,
      aud |-> aud, viz |-> viz, store |-> store,
      err |-> "", threw |-> FALSE, over |-> FALSE, arg |-> 0, wrote |-> {} ]

\* the turn ends in state m; n: the user's gestures in it, why: the
\* error.name of the rejection it handled.  CaptureStarted:
\* recorder.startRecording() succeeded in the turn, a new MediaRecorder was
\* started (and is recording, or was stopped again in the same turn);
\* EndPending: the stream of the session whose end was requested, until it is
\* released
Settle(m, op, n, why) ==
    LET CaptureStarted ==
            /\ m.rec.mediaRecorder # rec.mediaRecorder
            /\ \/ m.host.mr[m.rec.mediaRecorder].state = "recording"
               \/ m.host.mr[m.rec.mediaRecorder].pending = 2
        e == IF op = "app.end" /\ app.isRecording /\ rec.isRecording
               THEN rec.stream ELSE hist.ended
        EndPending == IF e \in m.host.streams THEN e ELSE 0
    IN  /\ ~m.over
        /\ rec' = m.rec /\ host' = m.host /\ tasks' = m.tasks
        /\ app' = m.app /\ ui' = m.ui /\ aud' = m.aud /\ viz' = m.viz
        /\ store' = m.store
        /\ hist' = [Did(hist, IF CaptureStarted THEN "app.started" ELSE op,
                             Ret(m.err = "", m.err, -1, <<>>))
                      EXCEPT !.gestures = @ + n, !.reason = why,
                             !.ended = EndPending,
                             !.arg = m.arg, !.wrote = m.wrote]
        /\ UNCHANGED now

\* the turn of a host event ends in state m
Becomes(m, op) == Settle(m, op, 0, "")

\* the turn of a gesture of the user ends in state m
Gesture(m, op) == hist.gestures < MaxGestures /\ Settle(m, op, 1, "")

\* an async function suspends on a host operation
Await(m, k, who, id) ==
    IF CanSuspend(m.tasks)
      THEN [m EXCEPT !.tasks[FreeTask(m.tasks)] = [k |-> k, who |-> who, id |-> id]]
      ELSE [m EXCEPT !.over = TRUE]

\* ui.showError
showError(m, msg) == [m EXCEPT !.err = msg]

(* ------------------------- the audio element -------------------------- *)
\* audioPlayer.pause(): a play() promise still pending is rejected, and the
\* ui.playRecording awaiting it ends there
Aud_pause(m) == [m EXCEPT !.aud.paused = TRUE, !.aud.awaited = 0]

\* audioPlayer.play(); of a paused element it queues the 'play' event, whose
\* listener requests a frame of updateProgressLoop
Aud_play(m) ==
    [m EXCEPT !.aud.paused = FALSE,
              !.ui.loop = IF m.aud.paused THEN Min(@ + 1, MaxLoops) ELSE @]

\* audioPlayer.src = ...: the element loads the new source from its start
Aud_load(m, id) ==
    [Aud_pause(m) EXCEPT !.aud.src = id, !.aud.ready = FALSE, !.aud.time = 0,
                         !.aud.duration = NaN, !.aud.len = 0,
                         !.aud.tu = (m.aud.time # 0)]

\* audioPlayer.currentTime = t: before the metadata is loaded the position
\* is kept as it is given, afterwards it is held within the clip and a
\* timeupdate follows
Aud_seek(m, t) ==
    IF m.aud.ready
      THEN [m EXCEPT !.aud.time = Min(t, m.aud.len), !.aud.tu = TRUE]
      ELSE [m EXCEPT !.aud.time = t]

(* --------------------------- StorageManager --------------------------- *)
\* getRecording: recordings.find(rec => rec.id === id), the first record of
\* the array that has the id; undefined is the record with id 0
Store_getRecording(st, id) ==
    LET hits == {i \in DOMAIN st.recs : st.recs[i].id = id}
    IN  IF hits = {} THEN [id |-> 0, duration |-> 0, starred |-> FALSE]
        ELSE st.recs[CHOOSE i \in hits : \A j \in hits : i <= j]

\* saveRecording after blobToBase64 resolved; t: the value of Date.now().
\* The duration is a whole number (Math.floor), which JSON.stringify and
\* JSON.parse give back as it is
Store_saveRecording(st, t, duration) ==
    [st EXCEPT !.recs = << [id |-> t, duration |-> duration, starred |-> FALSE] >> \o @,
               !.next = Max(@, t + 1)]

\* updateRecording(id, { starred }): findIndex, then the record at the index
\* is replaced by its copy with the update
Store_updateRecording(st, id, starred) ==
    LET hits == {i \in DOMAIN st.recs : st.recs[i].id = id}
    IN  IF hits = {} THEN st
        ELSE [st EXCEPT !.recs[CHOOSE i \in hits : \A j \in hits : i <= j].starred = starred]

\* deleteRecording: recordings.filter(rec => rec.id !== id)
Store_deleteRecording(st, id) ==
    LET keep(r) == r.id # id
    IN  [st EXCEPT !.recs = SelectSeq(@, keep)]

(* --------------------------- UIController ----------------------------- *)
\* the note cards rendered: one per stored recording
HasCard(m, id) == Store_getRecording(m.store, id).id # 0

\* updatePlayButton
UI_updatePlayButton(m, id, isPlaying) ==
    IF HasCard(m, id)
      THEN [m EXCEPT !.ui.icon[id] = IF isPlaying THEN "pause" ELSE "play"]
      ELSE m

\* resetPlayButton
UI_resetPlayButton(m, id) ==
    LET m1 == UI_updatePlayButton(m, id, FALSE)
    IN  IF HasCard(m1, id)
          THEN [m1 EXCEPT !.ui.fill[id] = Zero, !.ui.label[id] = formatDuration(0)]
          ELSE m1

\* the duration updatePlaybackProgress divides by; stored: currentDuration,
\* handle: audioPlayer.duration
ResolveDuration_progress(stored, handle) ==
    LET d == IF stored = 0 /\ isFinite(handle) THEN handle ELSE stored
    IN  IF d = 0 THEN PosPerSecond ELSE d

\* updatePlaybackProgress: validProgress / 100 and the elapsed label
UI_updatePlaybackProgress(m, id) ==
    LET d == ResolveDuration_progress(m.ui.currentDuration, m.aud.duration)
    IN
    IF HasCard(m, id)
      THEN [m EXCEPT !.ui.fill[id] = Frac(Max(0, Min(d, m.aud.time)), d),
                     !.ui.label[id] = formatDuration(m.aud.time),
                     !.wrote = @ \cup {id}]
      ELSE m

\* the duration updateMobilePlayerProgress divides by
ResolveDuration_sticky(stored, handle) ==
    IF Truthy(stored) THEN stored ELSE IF Truthy(handle) THEN handle ELSE 0

\* updateMobilePlayerProgress: progress / 100, written when duration > 0
\* (a position over Infinity is 0), and the two labels
UI_updateMobilePlayerProgress(m) ==
    LET d == ResolveDuration_sticky(m.ui.currentDuration, m.aud.duration)
    IN
    IF ~m.ui.mobileActive THEN m
    ELSE [m EXCEPT !.ui.sticky =
             [ fill     |-> IF d = Infinity THEN Zero
                            ELSE IF d > 0 THEN Frac(m.aud.time, d)
                            ELSE @.fill,
               time     |-> formatDuration(m.aud.time),
               duration |-> formatDuration(ResolveDuration_sticky(
                                m.ui.currentDuration, m.aud.duration)) ]]

\* the width of a track in pixels, and the offsets of the pointer from its
\* left edge that are tried: before it, at its middle, behind it
TrackWidth == 2
Offsets == { 0 - 1, TrackWidth \div 2, TrackWidth + 1 }

\* percentage * duration, percentage = max(0, min(1, offsetX / rect.width))
SeekTarget_unclamped(offsetX, duration) ==
    (offsetX * duration) \div TrackWidth
SeekTarget(offsetX, duration) ==
    (Max(0, Min(TrackWidth, offsetX)) * duration) \div TrackWidth

\* seekToPosition; d: the duration it multiplies by
UI_seekToPosition(m, offsetX) ==
    LET stored == m.ui.currentDuration
        d == IF Truthy(stored) /\ stored > 0 THEN stored ELSE m.aud.duration
    IN  IF Truthy(d) /\ isFinite(d) THEN Aud_seek(m, SeekTarget(offsetX, d)) ELSE m

\* handleSeek (of the sticky player's track); d: the duration it multiplies by
UI_handleSeek(m, offsetX) ==
    LET stored == m.ui.currentDuration
        d == IF Truthy(stored) THEN stored ELSE m.aud.duration
    IN  IF Truthy(d) /\ isFinite(d) THEN Aud_seek(m, SeekTarget(offsetX, d)) ELSE m

\* the two timeupdate listeners: setupAudioPlayerListeners' first, then
\* setupMobilePlayerListeners'
UI_timeupdate(m) ==
    LET cur == m.ui.currentPlayingId
        m1  == IF cur # 0 THEN UI_updatePlaybackProgress(m, cur) ELSE m
    IN  UI_updateMobilePlayerProgress(m1)

\* the frame callbacks of updateProgressLoop, which the host runs together in
\* one animation frame: each either writes the progress and requests its
\* successor, or requests nothing
UI_updateProgressLoop_reschedules(m) ==
    LET cur == m.ui.currentPlayingId
    IN  IF cur # 0 /\ ~m.aud.paused
          THEN UI_updatePlaybackProgress(m, cur)
          ELSE m
UI_updateProgressLoop(m) ==
    LET cur == m.ui.currentPlayingId
    IN  IF cur # 0 /\ ~m.aud.paused
          THEN UI_updatePlaybackProgress(m, cur)
          ELSE [m EXCEPT !.ui.loop = 0]

\* showMobilePlayer
UI_showMobilePlayer(m) == [m EXCEPT !.ui.mobileActive = TRUE]

\* closeMobilePlayer
UI_closeMobilePlayer(m) ==
    LET m1 == Aud_pause([m EXCEPT !.ui.mobileActive = FALSE])
    IN  IF m1.ui.currentPlayingId # 0
          THEN UI_updatePlayButton(m1, m1.ui.currentPlayingId, FALSE)
          ELSE m1

\* stopAllPlayback
UI_stopAllPlayback_clearsId(m) ==
    LET m1 == Aud_pause(m)
        m2 == IF m1.ui.currentPlayingId # 0
                THEN [UI_updatePlayButton(m1, m1.ui.currentPlayingId, FALSE)
                         EXCEPT !.ui.currentPlayingId = 0]
                ELSE m1
    IN  IF m2.ui.isMobile THEN UI_closeMobilePlayer(m2) ELSE m2
UI_stopAllPlayback(m) ==
    LET m1 == Aud_pause(m)
        m2 == IF m1.ui.currentPlayingId # 0
                THEN UI_updatePlayButton(m1, m1.ui.currentPlayingId, FALSE)
                ELSE m1
    IN  IF m2.ui.isMobile THEN UI_closeMobilePlayer(m2) ELSE m2

\* playRecording(id, audioBlob, duration) up to its await of audioPlayer.play()
UI_playRecording(m, id, duration) ==
    LET cur == m.ui.currentPlayingId
        m1  == IF cur # 0 /\ cur # id
                 THEN LET a == UI_resetPlayButton(Aud_pause(m), cur)
                      IN  IF a.ui.isMobile THEN UI_closeMobilePlayer(a) ELSE a
                 ELSE m
    IN  IF cur = id
          THEN IF m1.aud.paused
                 THEN LET b == UI_updatePlayButton(Aud_play(m1), id, TRUE)
                      IN  IF b.ui.isMobile THEN UI_showMobilePlayer(b) ELSE b
                 ELSE LET b == UI_updatePlayButton(Aud_pause(m1), id, FALSE)
                      IN  IF b.ui.isMobile THEN UI_closeMobilePlayer(b) ELSE b
          ELSE LET c == [m1 EXCEPT !.ui.currentPlayingId = id,
                                   !.ui.currentDuration = duration,
                                   !.ui.hooks = @ \cup {id}]
               IN  [Aud_play(Aud_load(c, id)) EXCEPT !.aud.awaited = id,
                                                     !.aud.urls = Min(@ + 1, MaxUrls)]

\* playRecording after audioPlayer.play() resolved
UI_playRecording_resumed(m, id) ==
    LET b == UI_updatePlaybackProgress(UI_updatePlayButton(m, id, TRUE), id)
    IN  IF b.ui.isMobile THEN UI_showMobilePlayer(b) ELSE b

\* the loadedmetadata hooks of playRecording, all run at the next
\* loadedmetadata, each once
RECURSIVE UI_runHooks(_, _)
UI_runHooks(m, ids) ==
    IF ids = {} THEN m
    ELSE LET id == CHOOSE i \in ids : \A j \in ids : i <= j
             m1 == IF m.ui.currentDuration = 0 /\ isFinite(m.aud.duration)
                     THEN [m EXCEPT !.ui.currentDuration = m.aud.duration]
                     ELSE m
         IN  UI_runHooks(UI_updatePlaybackProgress(m1, id), ids \ {id})
UI_loadedmetadata_overrides(m) ==
    UI_runHooks([m EXCEPT !.ui.hooks = {},
                          !.ui.currentDuration =
                              IF isFinite(m.aud.duration) THEN m.aud.duration ELSE @],
                m.ui.hooks)
UI_loadedmetadata(m) == UI_runHooks([m EXCEPT !.ui.hooks = {}], m.ui.hooks)

\* the 'ended' listeners: setupAudioPlayerListeners' first, then
\* setupMobilePlayerListeners'
UI_ended_keepsId(m) ==
    LET cur == m.ui.currentPlayingId
        m1  == IF cur # 0 THEN UI_resetPlayButton(m, cur) ELSE m
    IN  UI_closeMobilePlayer(m1)
UI_ended(m) ==
    LET cur == m.ui.currentPlayingId
        m1  == IF cur # 0
                 THEN [UI_resetPlayButton(m, cur) EXCEPT !.ui.currentPlayingId = 0]
                 ELSE m
    IN  UI_closeMobilePlayer(m1)

(* ------------------------ WaveformVisualizer -------------------------- *)
\* setupCanvas: assigning canvas.width clears the canvas
Viz_setupCanvas(m) == [m EXCEPT !.viz.paint = "blank"]

\* drawIdle
Viz_drawIdle(m) == [m EXCEPT !.viz.paint = "idle"]

\* draw: the next frame is requested first; reading this.analyser throws when
\* the analyser was never created
Viz_draw(m) ==
    IF ~m.viz.isAnimating THEN m
    ELSE LET m1 == [m EXCEPT !.viz.animationId = TRUE,
                             !.viz.frames = @ + 1,
                             !.viz.lastPending = TRUE]
         IN  IF ~m1.viz.analyser
               THEN [m1 EXCEPT !.threw = TRUE]
               ELSE [m1 EXCEPT !.viz.paint = "wave"]

\* start
Viz_start_unguarded(m) ==
    Viz_draw([m EXCEPT !.viz.isAnimating = TRUE])
Viz_start(m) ==
    IF m.viz.isAnimating THEN m
    ELSE Viz_draw([m EXCEPT !.viz.isAnimating = TRUE])

\* stop (with clearCanvas, which repaints the idle wave)
Viz_stop(m) ==
    LET cancelled == m.viz.animationId /\ m.viz.lastPending
    IN  Viz_drawIdle([m EXCEPT !.viz.isAnimating = FALSE,
                               !.viz.animationId = FALSE,
                               !.viz.lastPending = FALSE,
                               !.viz.frames = IF cancelled THEN @ - 1 ELSE @])

\* initialize up to its await of audioContext.resume()
Viz_initialize_begin(m) == [m EXCEPT !.viz.audioContext = "open"]

\* initialize, whose catch swallows every failure; how: "ok", "ctx" (the
\* AudioContext cannot be created, or its resume() rejects: the analyser is
\* not assigned) or "source" (createMediaStreamSource throws, after the
\* analyser was assigned)
Viz_initialize_rest(m, how) ==
    IF how = "ctx" THEN m
    ELSE [m EXCEPT !.viz.analyser = TRUE, !.viz.audioContext = "open"]

\* destroy; close() of a context that is closed already rejects
Viz_destroy_keepsContext(m) ==
    LET m1 == Viz_stop(m)
        m2 == [m1 EXCEPT !.viz.observing = FALSE]
        m3 == IF m2.viz.audioContext = "null" THEN m2
              ELSE IF m2.viz.audioContext = "closed"
                THEN showError(m2, "InvalidStateError")
                ELSE [m2 EXCEPT !.viz.audioContext = "closed"]
    IN  [m3 EXCEPT !.viz.analyser = FALSE]
Viz_destroy(m) ==
    LET m1 == Viz_stop(m)
        m2 == [m1 EXCEPT !.viz.observing = FALSE]
        m3 == IF m2.viz.audioContext = "null" THEN m2
              ELSE [m2 EXCEPT !.viz.audioContext = "null"]
    IN  [m3 EXCEPT !.viz.analyser = FALSE]

(* --------------------------- VoiceNotesApp ---------------------------- *)
\* openRecordingModal
App_openRecordingModal(m) == [m EXCEPT !.app.modal = "initial"]

\* ui.setRecordingState
UI_setRecordingState(m, isRecording) ==
    [m EXCEPT !.app.recordBtn = ~isRecording, !.app.doneBtn = isRecording]

\* startTimer
App_startTimer(m) ==
    IF m.app.timers >= MaxTimers THEN [m EXCEPT !.over = TRUE]
    ELSE [m EXCEPT !.app.timer = 0, !.app.timerInterval = TRUE, !.app.timers = @ + 1]

\* clearTimer, and pauseTimer, which is the same code
App_clearTimer(m) ==
    IF m.app.timerInterval
      THEN [m EXCEPT !.app.timerInterval = FALSE, !.app.timers = @ - 1]
      ELSE m

\* resumeTimer
App_resumeTimer(m) ==
    IF ~m.app.timerInterval
      THEN [m EXCEPT !.app.timerInterval = TRUE, !.app.timers = @ + 1]
      ELSE m

\* recorder.cleanup()
App_cleanup(m) ==
    LET w == cleanup(m.rec, m.host) IN [m EXCEPT !.rec = w.rec, !.host = w.host]

\* closeRecordingModal, cancelRecording: the statements after the await
App_sessionEnded(m) ==
    LET m1 == UI_setRecordingState([m EXCEPT !.app.isRecording = FALSE,
                                             !.app.isPaused = FALSE], FALSE)
    IN  App_openRecordingModal(App_cleanup(Viz_stop(App_clearTimer(m1))))

\* await this.recorder.stopRecording() in the function `who`.  When the
\* MediaRecorder is already inactive, MediaRecorder.stop() throws on some
\* hosts (throws) and does nothing on others; thrown inside the promise
\* executor it rejects the promise, after onstop was replaced (onstop -1: the
\* handler of a promise that is settled)
App_awaitStop(m, who, throws) ==
    LET g == m.rec.mediaRecorder IN
    IF m.host.mr[g].state = "inactive" /\ throws
      THEN [m EXCEPT !.host.mr[g].onstop = 0 - 1, !.threw = TRUE]
      ELSE IF CanSuspend(m.tasks)
             THEN Await([m EXCEPT !.host = stopRecording_executor(m.rec, m.host, FreeTask(m.tasks))],
                        "stop", who, g)
             ELSE [m EXCEPT !.over = TRUE]

\* closeRecordingModal
App_closeRecordingModal(m, throws) ==
    IF m.app.isRecording
      THEN IF stopRecording_refused(m.rec)
             THEN App_sessionEnded(m)
             ELSE [App_awaitStop(m, "close", throws) EXCEPT !.threw = FALSE]
      ELSE App_openRecordingModal(m)

\* cancelRecording
App_cancelRecording(m, throws) ==
    IF ~m.app.isRecording THEN m
    ELSE IF stopRecording_refused(m.rec)
      THEN App_sessionEnded(m)
      ELSE [App_awaitStop(m, "cancel", throws) EXCEPT !.threw = FALSE]

\* stopAndSaveRecording
App_stopAndSaveRecording(m, throws) ==
    IF ~m.app.isRecording THEN m
    ELSE IF stopRecording_refused(m.rec)
      THEN App_cleanup(showError(m, "Failed to stop recording"))
      ELSE [App_awaitStop(m, "save", throws) EXCEPT !.threw = FALSE]

\* stopAndSaveRecording after stopRecording resolved with the duration d;
\* space: storage.checkStorageSpace()
App_saveStopped(m, d, space) ==
    IF ~space
      THEN App_cleanup(showError(m, "StorageExhausted"))
      ELSE Await(m, "save", "save", d)

\* stopAndSaveRecording after storage.saveRecording settled; ok: setItem did
\* not throw
App_saved(m, d, ok) ==
    IF ~ok
      THEN App_cleanup(showError(m, "StorageExhausted"))
    ELSE IF m.store.next > MaxRec
      THEN [m EXCEPT !.over = TRUE]
    ELSE LET m1 == [m EXCEPT !.store = Store_saveRecording(@, m.store.next, d)]
             m2 == Viz_stop(m1)
             m3 == UI_setRecordingState([m2 EXCEPT !.app.isRecording = FALSE,
                                                   !.app.isPaused = FALSE], FALSE)
         IN  App_cleanup(App_openRecordingModal(App_clearTimer(m3)))

\* startRecording (the orchestrator's) after recorder.startRecording returned
\* ret.  inSwitch: called from switchToRecordingInterface, whose catch shows
\* the error and closes the modal
App_startRecording_returned(m, ret, inSwitch, throws) ==
    IF ~ret.success THEN showError(m, ret.error)
    ELSE LET m1 == UI_setRecordingState([m EXCEPT !.app.isRecording = TRUE,
                                                  !.app.isPaused = FALSE], TRUE)
             m2 == Viz_start(m1)
         IN  IF ~m2.threw THEN App_startTimer(m2)
             ELSE IF inSwitch
               THEN App_closeRecordingModal(
                        showError([m2 EXCEPT !.threw = FALSE], "Failed to start recording"),
                        throws)
               ELSE [m2 EXCEPT !.threw = FALSE]

\* startRecording (the orchestrator's)
App_startRecording(m, fail, inSwitch, throws) ==
    LET m1 == UI_stopAllPlayback(m) IN
    IF startRecording_refused(m1.rec)
      THEN App_startRecording_returned(m1, RetErr("AlreadyRecording"), inSwitch, throws)
    ELSE IF m1.rec.stream = 0
      THEN Await([m1 EXCEPT !.host = requestPermission_call(m1.host)],
                 "start", IF inSwitch THEN "switch" ELSE "toggle", 0)
    ELSE IF fail # "ctor" /\ ~CanCreateMR(m1.host)
      THEN [m1 EXCEPT !.over = TRUE]
    ELSE LET w == startRecording_body(m1.rec, m1.host, now, fail)
         IN  App_startRecording_returned([m1 EXCEPT !.rec = w.rec, !.host = w.host],
                                         w.ret, inSwitch, throws)

\* switchToRecordingInterface up to its await of requestPermission
App_switchToRecordingInterface(m) ==
    LET m1 == UI_stopAllPlayback(m)
        m2 == Viz_setupCanvas([m1 EXCEPT !.app.modal = "interface"])
        m3 == [m2 EXCEPT !.app.timer = 0, !.host = requestPermission_call(m2.host)]
    IN  Await(m3, "perm", "switch", 0)

\* switchToRecordingInterface after visualizer.initialize returned
App_switch_initialized(m, fail, throws) ==
    App_startRecording(Viz_drawIdle(m), fail, TRUE, throws)

\* togglePause
App_togglePause(m) ==
    IF ~m.app.isRecording THEN m
    ELSE IF m.app.pausedClass
      THEN LET m1 == UI_stopAllPlayback(m)
               w  == resumeRecording(m1.rec, m1.host)
               m2 == [m1 EXCEPT !.rec = w.rec, !.host = w.host]
           IN  IF w.ret.success
                 THEN LET m3 == Viz_start(m2)
                      IN  IF m3.threw THEN [m3 EXCEPT !.threw = FALSE]
                          ELSE [App_resumeTimer(m3) EXCEPT !.app.pausedClass = FALSE,
                                                          !.app.isPaused = FALSE]
                 ELSE m2
      ELSE LET w  == pauseRecording(m.rec, m.host)
               m2 == [m EXCEPT !.rec = w.rec, !.host = w.host]
           IN  IF w.ret.success
                 THEN [App_clearTimer(Viz_stop(m2)) EXCEPT !.app.pausedClass = TRUE,
                                                          !.app.isPaused = TRUE]
                 ELSE m2

\* playRecording (the orchestrator's), guard
App_playRecording_refused(a) == a.isRecording /\ ~a.isPaused

\* playRecording (the orchestrator's)
App_playRecording(m, id) ==
    IF App_playRecording_refused(m.app) THEN m
    ELSE LET recording == Store_getRecording(m.store, id)
         IN  IF recording.id = 0 THEN m
             ELSE UI_playRecording(m, id, recording.duration * PosPerSecond)

\* deleteRecording, confirmed; loadRecordings removes the card
App_deleteRecording(m, id) ==
    [m EXCEPT !.store = Store_deleteRecording(@, id),
              !.ui.icon[id] = "play", !.ui.fill[id] = Zero,
              !.ui.label[id] = formatDuration(0)]

(***************************************************************************)
(* The controller alone, driven by a client that awaits every call before  *)
(* it issues the next (the discipline the controller's contract asks of    *)
(* its callers), with the host's events arriving at any time.              *)
(***************************************************************************)
NoCallPending == \A t \in TaskIds : tasks[t] = NoTask

Suspend(k, who, id) == [tasks EXCEPT ![FreeTask(tasks)] = [k |-> k, who |-> who, id |-> id]]

\* await recorder.requestPermission()
CallRequestPermission ==
    /\ NoCallPending
    /\ host' = requestPermission_call(host)
    /\ tasks' = Suspend("perm", "api", 0)
    /\ hist' = Did(hist, "requestPermission", RetOk)
    /\ UNCHANGED <<rec, now>>
    /\ UNCHANGED appVars

\* getUserMedia resolves for the client's requestPermission()
ApiPermissionGranted ==
    \E t \in TaskIds :
        /\ tasks[t].k = "perm" /\ tasks[t].who = "api"
        /\ CanGrant(host)
        /\ LET w == requestPermission_granted(rec, host) IN
             /\ rec' = w.rec
             /\ host' = w.host
             /\ hist' = Did(hist, "requestPermission.done", w.ret)
        /\ tasks' = [tasks EXCEPT ![t] = NoTask]
        /\ UNCHANGED now
        /\ UNCHANGED appVars

\* getUserMedia rejects for the client's requestPermission()
ApiPermissionDenied ==
    \E t \in TaskIds, name \in DenyNames :
        /\ tasks[t].k = "perm" /\ tasks[t].who = "api"
        /\ LET w == requestPermission_denied(rec, host, name) IN
             /\ rec' = w.rec
             /\ host' = w.host
             /\ hist' = Did(hist, "requestPermission.done", w.ret)
        /\ tasks' = [tasks EXCEPT ![t] = NoTask]
        /\ UNCHANGED now
        /\ UNCHANGED appVars

\* the history after startRecording returned w.ret
Started(h, w, t) ==
    IF w.ret.success
      THEN [Did(h, "start.done", w.ret) EXCEPT !.startedAt = t, !.stopped = FALSE,
                                               !.paused = FALSE, !.resumed = FALSE]
      ELSE Did(h, "start.done", w.ret)

\* await recorder.startRecording()
CallStart ==
    \E fail \in {"ok", "ctor", "start"} :
        /\ NoCallPending
        /\ IF startRecording_refused(rec)
             THEN /\ hist' = Did(hist, "start.refused", RetErr("AlreadyRecording"))
                  /\ UNCHANGED <<rec, host, tasks>>
           ELSE IF rec.stream = 0
             THEN /\ host' = requestPermission_call(host)
                  /\ tasks' = Suspend("start", "api", 0)
                  /\ hist' = Did(hist, "start", RetOk)
                  /\ UNCHANGED rec
           ELSE /\ fail = "ctor" \/ CanCreateMR(host)
                /\ LET w == startRecording_body(rec, host, now, fail) IN
                     /\ rec' = w.rec
                     /\ host' = w.host
                     /\ hist' = Started(hist, w, now)
                /\ UNCHANGED tasks
        /\ UNCHANGED now
        /\ UNCHANGED appVars

\* getUserMedia resolves for the requestPermission() inside startRecording()
ApiStartGranted ==
    \E t \in TaskIds, fail \in {"ok", "ctor", "start"} :
        /\ tasks[t].k = "start" /\ tasks[t].who = "api"
        /\ CanGrant(host)
        /\ fail = "ctor" \/ CanCreateMR(host)
        /\ LET p == requestPermission_granted(rec, host)
               w == startRecording_body(p.rec, p.host, now, fail)
           IN  /\ rec' = w.rec
               /\ host' = w.host
               /\ hist' = Started(hist, w, now)
        /\ tasks' = [tasks EXCEPT ![t] = NoTask]
        /\ UNCHANGED now
        /\ UNCHANGED appVars

\* getUserMedia rejects for the requestPermission() inside startRecording()
ApiStartDenied ==
    \E t \in TaskIds, name \in DenyNames :
        /\ tasks[t].k = "start" /\ tasks[t].who = "api"
        /\ LET w == requestPermission_denied(rec, host, name) IN
             /\ rec' = w.rec
             /\ host' = w.host
             /\ hist' = Did(hist, "start.done", w.ret)
        /\ tasks' = [tasks EXCEPT ![t] = NoTask]
        /\ UNCHANGED now
        /\ UNCHANGED appVars

\* recorder.pauseRecording()
CallPause ==
    /\ NoCallPending
    /\ LET w == pauseRecording(rec, host) IN
         /\ rec' = w.rec
         /\ host' = w.host
         /\ hist' = [Did(hist, "pause", w.ret) EXCEPT !.paused = @ \/ w.ret.success]
    /\ UNCHANGED <<now, tasks>>
    /\ UNCHANGED appVars

\* recorder.resumeRecording()
CallResume ==
    /\ NoCallPending
    /\ LET w == resumeRecording(rec, host) IN
         /\ rec' = w.rec
         /\ host' = w.host
         /\ hist' = [Did(hist, "resume", w.ret) EXCEPT !.resumed = @ \/ w.ret.success]
    /\ UNCHANGED <<now, tasks>>
    /\ UNCHANGED appVars

\* await recorder.stopRecording()
CallStop ==
    /\ NoCallPending
    /\ IF stopRecording_refused(rec)
         THEN /\ hist' = Did(hist, "stop.refused", RetErr("NotRecording"))
              /\ UNCHANGED <<host, tasks>>
         ELSE /\ host' = stopRecording_executor(rec, host, FreeTask(tasks))
              /\ tasks' = Suspend("stop", "api", rec.mediaRecorder)
              /\ hist' = Did(hist, "stop", RetOk)
    /\ UNCHANGED <<rec, now>>
    /\ UNCHANGED appVars

\* recorder.cleanup()
CallCleanup ==
    /\ NoCallPending
    /\ LET w == cleanup(rec, host) IN
         /\ rec' = w.rec
         /\ host' = w.host
    /\ hist' = Did(hist, "cleanup", RetOk)
    /\ UNCHANGED <<now, tasks>>
    /\ UNCHANGED appVars

\* the host fires dataavailable of the timeslice on a recording MediaRecorder
DataAvailable ==
    \E g \in MRs :
        /\ host.mr[g].state = "recording"
        /\ Len(rec.audioChunks) < MaxChunks
        /\ rec' = ondataavailable(rec, g)
        /\ hist' = Did(hist, "event", RetOk)
        /\ UNCHANGED <<host, now, tasks>>
        /\ UNCHANGED appVars

\* the host fires the last dataavailable of a stopped MediaRecorder; the
\* fragment is empty (and not pushed) when nothing was captured since the last
FinalData ==
    \E g \in MRs, empty \in BOOLEAN :
        /\ host.mr[g].pending = 2
        /\ empty \/ Len(rec.audioChunks) < MaxChunks
        /\ rec' = IF empty THEN rec ELSE ondataavailable(rec, g)
        /\ host' = [host EXCEPT !.mr[g].pending = 1]
        /\ hist' = Did(hist, "event", RetOk)
        /\ UNCHANGED <<now, tasks>>
        /\ UNCHANGED appVars

\* the task whose stopRecording() promise the onstop handler of g resolves
StopWaiter(g) == host.mr[g].onstop
HasWaiter(g) ==
    /\ StopWaiter(g) \in TaskIds
    /\ tasks[StopWaiter(g)].k = "stop"
    /\ tasks[StopWaiter(g)].id = g

\* the host fires stop on g and nobody awaits it: the handler is the one
\* startRecording installed (it does nothing), or its promise is settled
StopEvent ==
    \E g \in MRs :
        /\ host.mr[g].pending = 1
        /\ ~HasWaiter(g)
        /\ host' = Collect([host EXCEPT !.mr[g].pending = 0], rec.mediaRecorder)
        /\ rec' = IF StopWaiter(g) = 0 THEN rec ELSE stopRecording_onstop(rec, now).rec
        /\ hist' = Did(hist, "event", RetOk)
        /\ UNCHANGED <<now, tasks>>
        /\ UNCHANGED appVars

\* the host fires stop on g: the client's stopRecording() resolves
ApiStopResolved ==
    \E g \in MRs :
        /\ host.mr[g].pending = 1
        /\ HasWaiter(g)
        /\ tasks[StopWaiter(g)].who = "api"
        /\ host' = Collect([host EXCEPT !.mr[g].pending = 0], rec.mediaRecorder)
        /\ LET w == stopRecording_onstop(rec, now) IN
             /\ rec' = w.rec
             /\ hist' = [Did(hist, "stop.done", w.ret) EXCEPT !.stopped = TRUE]
        /\ tasks' = [tasks EXCEPT ![StopWaiter(g)] = NoTask]
        /\ UNCHANGED now
        /\ UNCHANGED appVars

\* the clock advances
Tick ==
    /\ now < MaxTime
    /\ now' = now + 1
    /\ hist' = Did(hist, "event", RetOk)
    /\ UNCHANGED <<rec, host, tasks>>
    /\ UNCHANGED appVars

InitRecorder ==
    /\ rec = InitRec
    /\ host = InitHost
    /\ now = 0
    /\ tasks = [t \in TaskIds |-> NoTask]
    /\ hist = InitHist
    /\ app = InitApp
    /\ ui = InitUI
    /\ aud = InitAud
    /\ viz = InitViz
    /\ store = InitStore

NextRecorder ==
    \/ CallRequestPermission \/ ApiPermissionGranted \/ ApiPermissionDenied
    \/ CallStart \/ ApiStartGranted \/ ApiStartDenied
    \/ CallPause \/ CallResume \/ CallStop \/ CallCleanup
    \/ DataAvailable \/ FinalData \/ StopEvent \/ ApiStopResolved

SpecRecorder == InitRecorder /\ [][NextRecorder]_vars

\* The capture sessions of the same client against the clock: start, pause,
\* resume, stop and cleanup, in any order, while the clock ticks.
NextSession ==
    \/ CallStart \/ ApiStartGranted \/ ApiStartDenied
    \/ CallPause \/ CallResume \/ CallStop \/ CallCleanup
    \/ DataAvailable \/ FinalData \/ StopEvent \/ ApiStopResolved
    \/ Tick

SpecSession == InitRecorder /\ [][NextSession]_vars

(***************************************************************************)
(* The application: the user's gestures and the host's events, one action  *)
(* per event-loop turn.                                                    *)
(***************************************************************************)
HowInit == {"ok", "ctx", "source"}
HowStart == {"ok", "ctor", "start"}

\* the state with task t finished
Resumed(t) == [Cur EXCEPT !.tasks[t] = NoTask]

\* click on #startRecordingBtn
StartBtnClick ==
    /\ app.modal = "initial"
    /\ Gesture(App_switchToRecordingInterface(Cur), "event")

\* getUserMedia resolves for switchToRecordingInterface; suspended: the new
\* AudioContext starts suspended and initialize awaits its resume()
SwitchPermGranted ==
    \E t \in TaskIds, suspended, throws \in BOOLEAN, how \in HowInit, fail \in HowStart :
        /\ tasks[t].k = "perm" /\ tasks[t].who = "switch"
        /\ CanGrant(host)
        /\ LET p  == requestPermission_granted(rec, host)
               m0 == [Resumed(t) EXCEPT !.rec = p.rec, !.host = p.host]
           IN  IF suspended /\ how # "ctx"
                 THEN Becomes(Await(Viz_initialize_begin(m0), "init", "switch", 0), "event")
                 ELSE Becomes(App_switch_initialized(Viz_initialize_rest(m0, how), fail, throws),
                              "event")

\* getUserMedia rejects for switchToRecordingInterface
SwitchPermDenied ==
    \E t \in TaskIds, name \in DenyNames, throws \in BOOLEAN :
        /\ tasks[t].k = "perm" /\ tasks[t].who = "switch"
        /\ LET p  == requestPermission_denied(rec, host, name)
               m0 == [Resumed(t) EXCEPT !.rec = p.rec, !.host = p.host]
           IN  Settle(App_closeRecordingModal(showError(m0, p.ret.error), throws),
                      "app.switch.denied", 0, name)

\* audioContext.resume() settles inside visualizer.initialize
SwitchInitDone ==
    \E t \in TaskIds, throws \in BOOLEAN, how \in HowInit, fail \in HowStart :
        /\ tasks[t].k = "init"
        /\ Becomes(App_switch_initialized(Viz_initialize_rest(Resumed(t), how), fail, throws),
                   "event")

\* click on #recordBtn: toggleRecording
RecordBtnClick ==
    \E throws \in BOOLEAN, fail \in HowStart :
        /\ app.modal = "interface" /\ app.recordBtn
        /\ IF app.isRecording
             THEN Gesture(App_stopAndSaveRecording(Cur, throws), "app.end")
             ELSE Gesture(App_startRecording(Cur, fail, FALSE, throws), "event")

\* getUserMedia resolves for the requestPermission inside recorder.startRecording
AppStartGranted ==
    \E t \in TaskIds, throws \in BOOLEAN, fail \in HowStart :
        /\ tasks[t].k = "start" /\ tasks[t].who \in {"switch", "toggle"}
        /\ CanGrant(host)
        /\ fail = "ctor" \/ CanCreateMR(host)
        /\ LET p  == requestPermission_granted(rec, host)
               w  == startRecording_body(p.rec, p.host, now, fail)
               m0 == [Resumed(t) EXCEPT !.rec = w.rec, !.host = w.host]
           IN  Becomes(App_startRecording_returned(m0, w.ret, tasks[t].who = "switch", throws),
                       "event")

\* getUserMedia rejects for the requestPermission inside recorder.startRecording
AppStartDenied ==
    \E t \in TaskIds, name \in DenyNames :
        /\ tasks[t].k = "start" /\ tasks[t].who \in {"switch", "toggle"}
        /\ LET p  == requestPermission_denied(rec, host, name)
               m0 == [Resumed(t) EXCEPT !.rec = p.rec, !.host = p.host]
           IN  Settle(App_startRecording_returned(m0, p.ret, tasks[t].who = "switch", FALSE),
                      "app.start.denied", 0, name)

\* click on #pauseBtn
PauseBtnClick ==
    /\ app.modal = "interface"
    /\ Gesture(App_togglePause(Cur), "event")

\* click on #cancelRecordingBtn
CancelBtnClick ==
    \E throws \in BOOLEAN :
        /\ app.modal = "interface"
        /\ Gesture(App_cancelRecording(Cur, throws), "app.end")

\* click on #doneBtn
DoneBtnClick ==
    \E throws \in BOOLEAN :
        /\ app.modal = "interface" /\ app.doneBtn
        /\ Gesture(App_stopAndSaveRecording(Cur, throws), "app.end")

\* keydown Escape
EscapeKey ==
    \E throws \in BOOLEAN :
        /\ app.isRecording
        /\ Gesture(App_closeRecordingModal(Cur, throws), "app.end")

\* the host fires stop on g and the application awaits it; space: the answer
\* of storage.checkStorageSpace()
AppStopResolved ==
    \E g \in MRs, space \in BOOLEAN :
        /\ host.mr[g].pending = 1
        /\ HasWaiter(g)
        /\ tasks[StopWaiter(g)].who \in {"save", "cancel", "close"}
        /\ LET w  == stopRecording_onstop(rec, now)
               m0 == [Resumed(StopWaiter(g)) EXCEPT
                         !.rec = w.rec,
                         !.host = Collect([host EXCEPT !.mr[g].pending = 0], rec.mediaRecorder)]
           IN  IF tasks[StopWaiter(g)].who = "save"
                 THEN Becomes(App_saveStopped(m0, w.ret.duration, space),
                              IF space THEN "event" ELSE "app.save.failed")
                 ELSE Becomes(App_sessionEnded(m0), "event")

\* storage.saveRecording settles; ok: localStorage.setItem did not throw
SaveSettled ==
    \E t \in TaskIds, ok \in BOOLEAN :
        /\ tasks[t].k = "save"
        /\ Becomes(App_saved(Resumed(t), tasks[t].id, ok),
                   IF ok THEN "app.saved" ELSE "app.save.failed")

\* click on the play button of a note card
PlayBtnClick ==
    \E id \in RecIds :
        /\ HasCard(Cur, id)
        /\ Gesture(App_playRecording([Cur EXCEPT !.arg = id], id), "app.play")

\* loadedmetadata of the audio element: the clip is len quarters long, and the
\* element reports that as its duration, or Infinity (a MediaRecorder clip
\* without a duration in its header).  The duration stored with a recording
\* is rounded down to the second, the clip is longer by a part of a second,
\* here by half of one; a recording deleted while it loads can have had any
\* duration
LoadedMetadata ==
    \E finite \in BOOLEAN : \E len \in
        { d * PosPerSecond + PosPerSecond \div 2 : d \in
            { k \in 0..(MaxPos - 1) :
                HasCard(Cur, aud.src) =>
                    k = Store_getRecording(store, aud.src).duration } } :
        /\ aud.src # 0 /\ ~aud.ready
        /\ Becomes(UI_loadedmetadata(
                     [Cur EXCEPT !.aud.ready = TRUE, !.aud.len = len,
                                 !.aud.duration = IF finite THEN len ELSE Infinity,
                                 !.aud.time = Min(@, len)]), "event")

\* the promise of audioPlayer.play() resolves
PlayResolved ==
    /\ aud.awaited # 0
    /\ aud.ready
    /\ Becomes(UI_playRecording_resumed([Cur EXCEPT !.aud.awaited = 0], aud.awaited), "event")

\* click on the play/pause button of the sticky player
StickyPlayPauseClick ==
    /\ ui.mobileActive
    /\ Gesture(IF aud.paused THEN Aud_play(Cur) ELSE Aud_pause(Cur), "event")

\* click on the close button of the sticky player
StickyCloseClick ==
    /\ ui.mobileActive
    /\ Gesture(UI_closeMobilePlayer(Cur), "event")

\* the window is resized across or within the 768px breakpoint
Resize ==
    \E mobile \in BOOLEAN :
        /\ mobile \in BOOLEAN
        /\ Gesture(Viz_setupCanvas([Cur EXCEPT !.ui.isMobile = mobile]), "event")

\* playback advances by a second, or to the end of the clip
AudioAdvance ==
    /\ ~aud.paused /\ aud.ready /\ aud.time < aud.len
    /\ Becomes([Cur EXCEPT !.aud.time = Min(@ + PosPerSecond, aud.len),
                           !.aud.tu = TRUE], "event")

\* playback reaches the end of the clip
AudioEnded ==
    /\ ~aud.paused /\ aud.ready /\ aud.time = aud.len
    /\ Becomes(UI_ended([Cur EXCEPT !.aud.paused = TRUE]), "ended")

\* timeupdate of the audio element
TimeUpdate ==
    /\ aud.tu
    /\ Becomes(UI_timeupdate([Cur EXCEPT !.aud.tu = FALSE]), "timeupdate")

\* an animation frame: the frame callbacks of updateProgressLoop run
ProgressFrame ==
    /\ ui.loop > 0
    /\ Becomes(UI_updateProgressLoop(Cur), "frame")

\* click (down is FALSE) or mousedown (down is TRUE, at the middle of the
\* bar) on the progress bar of the note card `bar`: the document's
\* listeners, which look for a .progress-bar under the pointer and for an
\* active id
SeekCard ==
    \E bar \in RecIds, offsetX \in Offsets, down \in BOOLEAN :
        /\ HasCard(Cur, bar)
        /\ down => offsetX = TrackWidth \div 2
        /\ hist.gestures < MaxGestures
        /\ LET m  == [Cur EXCEPT !.arg = offsetX]
               m1 == IF ui.currentPlayingId # 0
                       THEN [UI_seekToPosition(m, offsetX) EXCEPT
                                !.ui.drag = IF down THEN bar ELSE @]
                       ELSE m
           IN  Gesture(m1, IF bar = ui.currentPlayingId THEN "seek.card"
                                                        ELSE "seek.other")

\* mousemove while a progress bar is dragged, to a place before or behind it
MouseMove ==
    \E offsetX \in Offsets \ {TrackWidth \div 2} :
        /\ ui.drag # 0
        /\ Gesture(UI_seekToPosition([Cur EXCEPT !.arg = offsetX], offsetX), "seek.drag")

\* mouseup
MouseUp ==
    /\ ui.drag # 0
    /\ Gesture([Cur EXCEPT !.ui.drag = 0], "event")

\* mousedown, touchstart or drag on the track of the sticky player
SeekSticky ==
    \E offsetX \in Offsets :
        /\ ui.mobileActive
        /\ Gesture(UI_handleSeek([Cur EXCEPT !.arg = offsetX], offsetX), "seek.sticky")

\* an animation frame callback of the visualizer runs
VizFrame ==
    /\ viz.frames > 0
    /\ Becomes([Viz_draw([Cur EXCEPT !.viz.frames = @ - 1, !.viz.lastPending = FALSE])
                   EXCEPT !.threw = FALSE], "event")

\* delete in a note card's menu, confirmed
DeleteClick ==
    \E id \in RecIds :
        /\ HasCard(Cur, id)
        /\ Gesture(App_deleteRecording(Cur, id), "event")

InitApplication ==
    /\ rec = InitRec
    /\ host = InitHost
    /\ now = 0
    /\ tasks = [t \in TaskIds |-> NoTask]
    /\ hist = InitHist
    /\ app = InitApp
    /\ \E mobile \in BOOLEAN : ui = [InitUI EXCEPT !.isMobile = mobile]
    /\ aud = InitAud
    /\ viz = InitViz
    /\ store = InitStore

NextApp ==
    \/ StartBtnClick \/ SwitchPermGranted \/ SwitchPermDenied \/ SwitchInitDone
    \/ RecordBtnClick \/ AppStartGranted \/ AppStartDenied
    \/ PauseBtnClick \/ CancelBtnClick \/ DoneBtnClick \/ EscapeKey
    \/ AppStopResolved \/ SaveSettled
    \/ PlayBtnClick \/ LoadedMetadata \/ PlayResolved
    \/ StickyPlayPauseClick \/ StickyCloseClick \/ Resize
    \/ AudioAdvance \/ AudioEnded \/ VizFrame \/ DeleteClick
    \/ FinalData \/ StopEvent

SpecApp == InitApplication /\ [][NextApp]_vars

(***************************************************************************)
(* The visualizer alone, under a client that calls initialize, start, stop *)
(* and destroy in any order, with the host running the frame callbacks and *)
(* reporting size changes of the canvas.                                   *)
(***************************************************************************)
\* the calls of the client count as gestures, which bounds the run
VizCallInitialize ==
    \E how \in HowInit, suspended \in BOOLEAN :
        /\ hist.gestures < MaxGestures
        /\ Gesture(Viz_initialize_rest(
                       IF suspended THEN Viz_initialize_begin(Cur) ELSE Cur, how),
                   "viz.initialize")

VizCallStart ==
    /\ hist.gestures < MaxGestures
    /\ LET m == Viz_start(Cur)
       IN  Gesture([m EXCEPT !.err = IF m.threw THEN "TypeError" ELSE "",
                             !.threw = FALSE], "viz.start")

VizCallStop ==
    /\ hist.gestures < MaxGestures
    /\ Gesture(Viz_stop(Cur), "viz.stop")

\* (the history notes a destroy() that follows another one)
VizCallDestroy ==
    /\ hist.gestures < MaxGestures
    /\ Settle(Viz_destroy(Cur), "viz.destroy", 1,
              IF hist.op = "viz.destroy" THEN "again" ELSE "")

\* the ResizeObserver reports a new size of the canvas, or handleResize() is
\* called
VizResized ==
    \E by \in {"observer", "handleResize"} :
        /\ by = "observer" => viz.observing
        /\ Gesture(Viz_setupCanvas(Cur), "viz.resize")


NextViz ==
    \/ VizCallInitialize \/ VizCallStart \/ VizCallStop \/ VizCallDestroy
    \/ VizResized \/ VizFrame

SpecViz == InitApplication /\ [][NextViz]_vars

(***************************************************************************)
(* The storage alone, under the calls the orchestrator makes of it:        *)
(* saveRecording (from stopAndSaveRecording), updateRecording with a star  *)
(* (from toggleStar) and deleteRecording.  Date.now() does not decrease,   *)
(* and nothing makes it advance between two calls: a save that follows     *)
(* another can read the value the first one read (adv is FALSE).           *)
(***************************************************************************)
StoreSave ==
    \E d \in 0..(MaxPos - 1), adv \in BOOLEAN :
        /\ hist.gestures < MaxGestures
        /\ Len(store.recs) <= MaxRec
        /\ IF adv THEN store.next <= MaxRec + 1 ELSE hist.op = "store.save"
        /\ LET t == IF adv THEN store.next ELSE hist.arg
           IN  Gesture([Cur EXCEPT !.store = Store_saveRecording(@, t, d),
                                   !.arg = t], "store.save")

StoreToggleStar ==
    \E id \in 1..(MaxRec + 1) :
        /\ HasCard(Cur, id)
        /\ Gesture([Cur EXCEPT
                      !.store = Store_updateRecording(
                                    @, id, ~Store_getRecording(store, id).starred),
                      !.arg = id], "store.update")

StoreDelete ==
    \E id \in 1..(MaxRec + 1) :
        /\ HasCard(Cur, id)
        /\ Gesture([Cur EXCEPT !.store = Store_deleteRecording(@, id), !.arg = id],
                   "store.delete")

NextStore == StoreSave \/ StoreToggleStar \/ StoreDelete
SpecStore == InitApplication /\ [][NextStore]_vars

(***************************************************************************)
(* A capture session of the page against the clock: the user opens the     *)
(* recording interface, pauses, resumes and presses Done, while whole      *)
(* seconds pass between the gestures.                                      *)
(***************************************************************************)
\* a second passes: Date.now() is 1000 more, and the callback of the running
\* interval of startTimer / resumeTimer counts one up and writes the display.
\* An interval that was never cleared counts in a closure of its own, which
\* the model does not keep: the clock stands still while there is one.  The
\* host delivers the events of a stop within the second.
Second ==
    /\ now < MaxTime
    /\ \A g \in MRs : host.mr[g].pending = 0
    /\ app.timers = (IF app.timerInterval THEN 1 ELSE 0)
    /\ now' = now + TicksPerSecond
    /\ app' = [app EXCEPT !.timer = IF app.timerInterval THEN @ + 1 ELSE @]
    /\ hist' = Did(hist, "second", RetOk)
    /\ UNCHANGED <<rec, host, tasks, ui, aud, viz, store>>

NextTimer ==
    \/ StartBtnClick \/ SwitchPermGranted \/ SwitchInitDone
    \/ PauseBtnClick \/ DoneBtnClick \/ FinalData \/ StopEvent
    \/ AppStopResolved \/ SaveSettled \/ Second

SpecTimer == InitApplication /\ [][NextTimer]_vars

(***************************************************************************)
(* The player alone: the page with two recordings stored, one of less than *)
(* a second (its stored duration is 0) and one of a second or more, and no *)
(* capture session; the user playing, seeking and resizing, the audio      *)
(* element loading, advancing and ending.                                  *)
(***************************************************************************)
InitPlayer ==
    /\ rec = InitRec
    /\ host = InitHost
    /\ now = 0
    /\ tasks = [t \in TaskIds |-> NoTask]
    /\ hist = InitHist
    /\ app = InitApp
    /\ \E mobile \in BOOLEAN : ui = [InitUI EXCEPT !.isMobile = mobile]
    /\ aud = InitAud
    /\ viz = InitViz
    /\ store = [ recs |-> << [id |-> 2, duration |-> 1, starred |-> FALSE],
                             [id |-> 1, duration |-> 0, starred |-> FALSE] >>,
                 next |-> 3 ]

\* the orchestrator calls stopAllPlayback (before it opens the recording
\* interface, starts or resumes a recording); counted with the gestures
StopAllCall ==
    /\ hist.gestures < MaxGestures
    /\ Gesture(UI_stopAllPlayback(Cur), "stopAll")

NextPlayer ==
    \/ PlayBtnClick \/ LoadedMetadata \/ PlayResolved \/ StopAllCall
    \/ StickyPlayPauseClick \/ StickyCloseClick \/ Resize
    \/ AudioAdvance \/ AudioEnded \/ TimeUpdate \/ ProgressFrame
    \/ SeekCard \/ MouseMove \/ MouseUp \/ SeekSticky

SpecPlayer == InitPlayer /\ [][NextPlayer]_vars

(***************************************************************************)
(* The controller's contract                                               *)
(***************************************************************************)
\* the controller's states
RecIdle == ~rec.isRecording
RecRecording == rec.isRecording /\ ~rec.isPaused
RecPaused == rec.isRecording /\ rec.isPaused

\* C3: the duration a resolved stop() returns is the floor of the seconds from
\* the session's start() to the moment the stop finalizes, paused spans
\* included, and while a session runs its start timestamp is the clock at its
\* start(): pause() and resume() never move it.
C3_StopDurationIsWallClock ==
    /\ (hist.op = "stop.done" /\ hist.ret.success) =>
           /\ hist.ret.duration * TicksPerSecond <= now - hist.startedAt
           /\ now - hist.startedAt < (hist.ret.duration + 1) * TicksPerSecond
    /\ rec.isRecording => rec.recordingStartTime = hist.startedAt

\* a stop resolved one and a half seconds after start(), the session having
\* been paused and resumed: the duration is 1
C3_Witness ==
    /\ hist.op = "stop.done" /\ hist.ret.success
    /\ hist.paused /\ hist.resumed
    /\ now - hist.startedAt = TicksPerSecond + 1
    /\ hist.ret.duration = 1

\* C4: once a stop() has resolved and no start() succeeded since, a further
\* stop() returns the NotRecording failure at once and changes nothing.
C4_SecondStopNotRecording ==
    [][ (hist.stopped /\ hist'.op \in {"stop", "stop.refused"}) =>
          /\ hist'.op = "stop.refused"
          /\ hist'.ret = RetErr("NotRecording")
          /\ UNCHANGED <<rec, host, tasks>> ]_vars

\* a stop() refused right after a stop() resolved with its result
C4_Witness ==
    /\ hist.op = "stop.refused" /\ hist.stopped
    /\ hist.ret = RetErr("NotRecording")
    /\ rec.mediaRecorder # 0 /\ host.mr[rec.mediaRecorder].pending = 0

\* C5: pause() in a state other than Recording returns false and changes no
\* controller state.
C5_PauseOnlyFromRecording ==
    [][ (hist'.op = "pause" /\ ~RecRecording) =>
          /\ ~hist'.ret.success
          /\ UNCHANGED <<rec, host, tasks>> ]_vars

\* pause() was refused in Paused
C5_Witness ==
    hist.op = "pause" /\ ~hist.ret.success /\ RecPaused

\* C6: resume() from Paused returns true, the controller is Recording again
\* with the same chunks and the same start timestamp; in every other state it
\* returns false and changes no controller state.
C6_ResumeOnlyFromPaused ==
    [][ hist'.op = "resume" =>
          IF RecPaused
            THEN /\ hist'.ret.success
                 /\ rec'.isRecording /\ ~rec'.isPaused
                 /\ host'.mr[rec'.mediaRecorder].state = "recording"
                 /\ rec'.audioChunks = rec.audioChunks
                 /\ rec'.recordingStartTime = rec.recordingStartTime
                 /\ rec'.mediaRecorder = rec.mediaRecorder
                 /\ rec'.stream = rec.stream
            ELSE /\ ~hist'.ret.success
                 /\ UNCHANGED <<rec, host, tasks>> ]_vars

\* resume() succeeded on a session that holds a chunk and started earlier
C6_Witness ==
    /\ hist.op = "resume" /\ hist.ret.success
    /\ Len(rec.audioChunks) > 0
    /\ rec.recordingStartTime < now

\* C7: start() while Recording or Paused returns the AlreadyRecording failure
\* and touches nothing: chunks, start timestamp, paused flag, the capture.
C7_StartWhileRecordingRefused ==
    [][ (NoCallPending /\ rec.isRecording
           /\ hist'.op \in {"start", "start.refused", "start.done"}) =>
          /\ hist'.op = "start.refused"
          /\ hist'.ret = RetErr("AlreadyRecording")
          /\ UNCHANGED <<rec, host, tasks>> ]_vars

\* start() was refused on a paused session that holds a chunk
C7_Witness ==
    /\ hist.op = "start.refused"
    /\ RecPaused /\ Len(rec.audioChunks) > 0

\* C8: requestPermission() with a stream held asks the host for nothing, and
\* no acquired stream other than the held one is live.
C8_RequestPermissionIdempotent ==
    [][ /\ (hist'.op = "requestPermission" /\ rec.stream # 0) =>
               host'.gumPending = host.gumPending
        /\ \A s \in host'.streams : rec'.stream = s ]_vars

\* C10: cleanup() leaves the controller Idle with no stream and no chunks, the
\* stream it held ended and its capture inactive; a cleanup() right after a
\* cleanup() changes nothing; and every start() that succeeds begins a fresh
\* session: a new capture recording on a live stream, no chunks, not paused,
\* the start timestamp the clock.
C10_CleanupResetsToIdle ==
    [][ /\ hist'.op = "cleanup" =>
             /\ ~rec'.isRecording /\ ~rec'.isPaused
             /\ rec'.stream = 0
             /\ rec'.audioChunks = <<>>
             /\ rec.stream \notin host'.streams
             /\ rec'.mediaRecorder # 0 => host'.mr[rec'.mediaRecorder].state = "inactive"
             /\ tasks' = tasks
             /\ hist.op = "cleanup" => UNCHANGED <<rec, host>>
        /\ (hist'.op = "start.done" /\ hist'.ret.success) =>
             /\ rec'.isRecording /\ ~rec'.isPaused
             /\ rec'.audioChunks = <<>>
             /\ rec'.recordingStartTime = now
             /\ rec'.mediaRecorder # rec.mediaRecorder
             /\ host.mr[rec'.mediaRecorder].state = "none"
             /\ host'.mr[rec'.mediaRecorder].state = "recording"
             /\ rec'.stream \in host'.streams ]_vars

\* a session started after a cleanup() that had to stop the capture of the
\* session before, whose last events are still to be delivered
C10_Witness ==
    /\ hist.op = "start.done" /\ hist.ret.success
    /\ rec.mediaRecorder = 2
    /\ host.mr[1].pending = 2 /\ host.mr[1].onstop = 0


(***************************************************************************)
(* The application's contract                                              *)
(***************************************************************************)
\* the orchestrator's view of the session
AppIdle == ~rec.isRecording /\ rec.stream = 0 /\ ~app.isRecording

\* C1: in every reachable state of the application the audio player is not
\* playing while the recorder is Recording and not paused.
C1_NeverAudibleWhileRecording ==
    LET Playing == ~aud.paused /\ aud.ready
    IN  ~(RecRecording /\ Playing)

\* C2: a play request issued while a recording is active and not paused is
\* refused and leaves the playback state unchanged; a play request issued
\* while the recording is paused, or while no recording is active, is
\* accepted (it reaches the player, which starts, resumes or pauses).
C2_PlayRefusedExactlyWhileRecording ==
    [][ hist'.op = "app.play" =>
           IF RecRecording THEN UNCHANGED <<ui, aud>>
                           ELSE <<ui', aud'>> # <<ui, aud>> ]_vars

\* C9: when the permission request made from the idle state is denied, no
\* MediaRecorder is created or started, the message shown is the one
\* classified from the reason (PermissionDenied for NotAllowedError,
\* DeviceUnavailable otherwise), and the state remains idle: controller not
\* recording, no stream held, orchestrator not recording.
C9_DenialLeavesIdle ==
    [][ hist'.op \in {"app.switch.denied", "app.start.denied"} /\ AppIdle =>
           /\ host'.mr = host.mr
           /\ hist'.ret.error = IF hist'.reason = "NotAllowedError"
                                  THEN "PermissionDenied" ELSE "DeviceUnavailable"
           /\ AppIdle' ]_vars

C9_Witness ==
    /\ hist.op = "app.switch.denied"
    /\ hist.reason = "NotFoundError"
    /\ hist.ret.error = "DeviceUnavailable"
    /\ app.modal = "initial"
    /\ AppIdle


\* C11: at most one capture session is alive at a time: never more than one
\* active media recorder feeding the chunk buffer, and never more than one
\* acquired microphone stream that has not been released.
C11_OneCaptureSession ==
    LET ActiveMRs == {g \in MRs : host.mr[g].state \in {"recording", "paused"}}
        LiveStreams == host.streams
    IN  /\ Cardinality(ActiveMRs) <= 1
        /\ Cardinality(LiveStreams) <= 1


\* C12: on every path that ends a recording session (Done, Cancel,
\* Escape/close) the orchestrator calls cleanup(): once everything in flight
\* after the request has been delivered, the microphone stream is released and
\* the controller is Idle.
\* (Quiescent: no host event is queued, no getUserMedia is pending and no
\* async function waits for the storage or the audio context.)
C12_SessionEndReleases ==
    LET Quiescent == /\ \A g \in MRs : host.mr[g].pending = 0
                     /\ host.gumPending = 0
                     /\ \A t \in TaskIds : tasks[t].k \notin {"save", "init"}
    IN  Quiescent => hist.ended = 0


\* C13: when the persistence collaborator refuses the save after a successful
\* stop(), the orchestrator ends up not recording, with the elapsed timer
\* cleared, the waveform renderer stopped and the stream released.
C13_SaveFailureReturnsToIdle ==
    hist.op = "app.save.failed" =>
        /\ ~app.isRecording
        /\ ~app.timerInterval
        /\ ~viz.isAnimating
        /\ rec.stream = 0 /\ RecIdle


\* C14: a visualization failure never blocks recording: when the analysis node
\* is absent (initialize failed) and the controller's start succeeds, the
\* render loop starts without an error, the renderer shows the idle waveform,
\* and the session runs: controller Recording, orchestrator recording, timer
\* running.
C14_VisualizationFailureDoesNotBlock ==
    (hist.op = "app.started" /\ ~viz.analyser) =>
        /\ hist.ret.error = ""
        /\ viz.paint = "idle"
        /\ RecRecording /\ host.mr[rec.mediaRecorder].state = "recording"
        /\ app.isRecording /\ app.timerInterval


\* C15: once playback has moved from one card to another, the card left
\* shows the "play" icon and no progress, and no progress update is written
\* to it while it is not the active one: not by timeupdate, not by the frame
\* loop, not by the loadedmetadata hook registered when it was started.
C15_NoStrayProgress ==
    \A id \in RecIds :
        (HasCard(Cur, id) /\ id # ui.currentPlayingId) =>
            /\ id \notin hist.wrote
            /\ ui.icon[id] = "play"
            /\ ui.fill[id] = Zero
            /\ ui.label[id] = formatDuration(0)

\* C16: every progress fraction on display, the fill of each card and the
\* fill of the sticky player, lies between 0 and 1, also when the position
\* is beyond the duration divided by and when no duration is known.
C16_ProgressFractionInRange ==
    LET InUnitInterval(f) == 0 <= f.n /\ f.n <= f.d
    IN  /\ \A id \in RecIds : InUnitInterval(ui.fill[id])
        /\ InUnitInterval(ui.sticky.fill)

\* C17: the two progress triggers, timeupdate and the frame loop, feed both
\* surfaces from one computation: when either has run while the sticky
\* player is open, the sticky player's fill and elapsed label equal those of
\* the active card.
C17_SurfacesAgree ==
    ( /\ hist.op \in {"timeupdate", "frame"}
      /\ ui.mobileActive
      /\ HasCard(Cur, ui.currentPlayingId) )
    => /\ ui.sticky.fill = ui.fill[ui.currentPlayingId]
       /\ ui.sticky.time = ui.label[ui.currentPlayingId]

C19_SeekResolvesAsProgress ==
    LET ProgressDuration ==
            ResolveDuration_progress(ui.currentDuration, aud.duration)
    IN  hist.op \in {"seek.card", "seek.sticky"} =>
            /\ hist.arg <= 0 => aud.time = 0
            /\ hist.arg >= TrackWidth => aud.time = ProgressDuration
            /\ (0 < hist.arg /\ hist.arg < TrackWidth) =>
                   aud.time * TrackWidth = hist.arg * ProgressDuration

\* C20: a click on play for the card that is already the active one toggles.
\* While it plays: playback pauses, the icon shows "play", and the sticky
\* player is closed if it was open.  While it is paused: playback resumes,
\* the icon shows "pause", and the sticky player is opened in compact mode.
\* Either way the position is kept and the source is not loaded again.
C20_PlayOnActiveToggles ==
    [][ ( /\ hist'.op = "app.play"
          /\ hist'.arg = ui.currentPlayingId
          /\ ~App_playRecording_refused(app) ) =>
          /\ ui'.currentPlayingId = ui.currentPlayingId
          /\ aud'.src = aud.src /\ aud'.ready = aud.ready /\ aud'.time = aud.time
          /\ IF ~aud.paused
               THEN /\ aud'.paused
                    /\ ui'.icon[ui.currentPlayingId] = "play"
                    /\ ~ui'.mobileActive
               ELSE /\ ~aud'.paused
                    /\ ui'.icon[ui.currentPlayingId] = "pause"
                    /\ ui.isMobile => ui'.mobileActive ]_vars

\* C21: when the clip ends by itself the active card's icon is reset to
\* "play", no card is active any more and the sticky player is closed; from
\* then on, as long as no card is made active by a new play, no progress is
\* written to any card or to the sticky player.
C21_EndedResets ==
    [][ /\ hist'.op = "ended" =>
              /\ HasCard(Cur, ui.currentPlayingId) =>
                     ui'.icon[ui.currentPlayingId] = "play"
              /\ ui'.currentPlayingId = 0
              /\ ~ui'.mobileActive
        /\ (ui.currentPlayingId = 0 /\ ui'.currentPlayingId = 0) =>
              /\ hist'.wrote = {}
              /\ ui'.fill = ui.fill /\ ui'.label = ui.label
              /\ ui'.sticky = ui.sticky ]_vars
C21_Witness ==
    /\ hist.op = "ended"
    /\ ui.isMobile
    /\ ui.currentPlayingId = 0
    /\ aud.tu

\* C22: stopAllPlayback pauses the audio at once, shows "play" on the active
\* card if there is one and closes the sticky player in compact mode; the
\* active id, the duration chosen and the position stay as they are, and a
\* play of the same card right after it resumes without loading again.
C22_StopAllKeepsTarget ==
    [][ /\ hist'.op = "stopAll" =>
              /\ aud'.paused
              /\ HasCard(Cur, ui.currentPlayingId) =>
                     ui'.icon[ui.currentPlayingId] = "play"
              /\ ui.isMobile => ~ui'.mobileActive
              /\ ui'.currentPlayingId = ui.currentPlayingId
              /\ ui'.currentDuration = ui.currentDuration
              /\ aud'.time = aud.time /\ aud'.src = aud.src
        /\ ( /\ hist.op = "stopAll" /\ hist'.op = "app.play"
             /\ ui.currentPlayingId # 0 /\ hist'.arg = ui.currentPlayingId ) =>
              /\ ~aud'.paused
              /\ aud'.src = aud.src /\ aud'.ready = aud.ready
              /\ aud'.time = aud.time ]_vars
C22_Witness ==
    /\ hist.op = "stopAll"
    /\ ui.currentPlayingId # 0 /\ ui.isMobile
    /\ aud.ready /\ aud.time > 0 /\ aud.time < aud.len

C24_AtMostOneObjectURL == aud.urls <= 1

\* C25: a frame callback of the progress loop that runs when no card is
\* active or the player is paused writes no progress and requests no further
\* frame: after it no frame callback is pending.
C25_FrameLoopStops ==
    [][ ( /\ hist'.op = "frame"
          /\ (ui.currentPlayingId = 0 \/ aud.paused) ) =>
        ( /\ ui'.loop = 0
          /\ hist'.wrote = {}
          /\ ui'.fill = ui.fill /\ ui'.label = ui.label /\ ui'.sticky = ui.sticky ) ]_vars
C25_Witness ==
    /\ hist.op = "frame" /\ ui.loop = 0
    /\ ui.currentPlayingId # 0 /\ aud.paused /\ aud.ready /\ aud.time > 0

\* C26: start() does nothing while the visualizer is animating; whatever the
\* order of start(), stop() and frame callbacks, at most one frame callback
\* is pending, and exactly one while the visualizer is animating.
C26_OnePendingFrame ==
    /\ [] ( /\ viz.frames <= 1
            /\ viz.isAnimating => (viz.frames = 1 /\ viz.lastPending /\ viz.animationId) )
    /\ [][ (hist'.op = "viz.start" /\ viz.isAnimating) => viz' = viz ]_vars
C26_Witness ==
    /\ hist.op = "viz.start" /\ hist.gestures >= 4
    /\ viz.isAnimating /\ viz.analyser /\ viz.paint = "blank" /\ viz.frames = 1

\* C28: start() draws nothing itself, it only has the first frame scheduled;
\* so when stop() follows it before a frame callback has run, no animated
\* frame was drawn at all, the idle wave is painted last and no callback is
\* left pending.
C28_StartStopDrawsNothing ==
    [][ /\ (hist'.op = "viz.start" /\ ~viz.isAnimating) => viz'.paint = viz.paint
        /\ (hist.op = "viz.start" /\ hist'.op = "viz.stop") =>
               (viz'.paint = "idle" /\ viz'.frames = 0 /\ ~viz'.isAnimating) ]_vars

\* C29: stop() leaves the idle wave on the canvas, and from then until the
\* next start() the canvas keeps showing it, also when a change of size has
\* the canvas set up again.
C29_IdleAfterStop ==
    [][ /\ hist'.op = "viz.stop" => viz'.paint = "idle"
        /\ (viz.paint = "idle" /\ ~viz.isAnimating /\ ~viz'.isAnimating) =>
               viz'.paint = "idle" ]_vars

\* C30: destroy() can be called again and again: every call leaves the
\* animation stopped with no frame pending, the size observer disconnected
\* and the audio context released and forgotten, and raises no error; a call
\* that follows another destroy() changes nothing.
C30_DestroyIsRepeatable ==
    [][ hist'.op = "viz.destroy" =>
          /\ hist'.ret.success
          /\ ~viz'.isAnimating /\ viz'.frames = 0 /\ ~viz'.observing
          /\ viz'.audioContext = "null" /\ ~viz'.analyser
          /\ hist.op = "viz.destroy" => (viz' = viz /\ hist'.ret = hist.ret) ]_vars
C30_Witness ==
    /\ hist.op = "viz.destroy" /\ hist.reason = "again" /\ hist.ret.success
    /\ ~viz.observing /\ viz.audioContext = "null" /\ viz.paint = "idle"

\* C31: the record saveRecording returns is the one getRecording finds under
\* its id, and as long as a recording is not deleted getRecording finds it
\* under its id with the duration it was saved with, whatever is saved,
\* starred or deleted besides.
C31_SavedDurationIsKept ==
    [][ /\ hist'.op = "store.save" =>
               Store_getRecording(store', hist'.arg).id = hist'.arg
        /\ \A id \in 1..(MaxRec + 1) :
               ( /\ HasCard(Cur, id)
                 /\ ~(hist'.op = "store.delete" /\ hist'.arg = id) ) =>
               /\ Store_getRecording(store', id).id = id
               /\ Store_getRecording(store', id).duration =
                      Store_getRecording(store, id).duration ]_vars

\* C32: every stopRecording() the orchestrator awaits returns: as long as a
\* handler (Done, Cancel, Escape) waits for it, the stop event is still to
\* be delivered and the onstop handler of the MediaRecorder is the one that
\* resolves this handler's promise, so that no handler waits forever and the
\* session finished with Done reaches its save.
C32_EveryStopReturns ==
    \A t \in TaskIds :
        tasks[t].k = "stop" =>
            /\ host.mr[tasks[t].id].onstop = t
            /\ host.mr[tasks[t].id].pending > 0

\* C33: while a recording session runs, the pause button carries the class
\* 'paused' exactly when the recorder is paused; in particular it does not
\* carry it while the recorder records, so that a click on it pauses.
C33_PauseMarkerAgrees ==
    rec.isRecording => (app.pausedClass <=> rec.isPaused)

\* C34: at most one progress frame loop is live: whatever the order of play,
\* pause, resume, change of card and frames, no more than one frame callback
\* of the progress loop is pending.
C34_OneProgressLoop == ui.loop <= 1

\* C35: the play button of the active card shows "pause" exactly when the
\* audio element is playing, in every state in which the events of the last
\* gesture have been handled: no play() promise is awaited and the clip has
\* not reached its end with the 'ended' event still to come.
C35_IconFollowsPlayback ==
    ( /\ ui.currentPlayingId # 0
      /\ HasCard(Cur, ui.currentPlayingId)
      /\ aud.awaited = 0
      /\ ~(aud.ready /\ ~aud.paused /\ aud.time = aud.len) )
    => (ui.icon[ui.currentPlayingId] = "pause" <=> ~aud.paused)

\* C36: a click, a pointer-down or a drag on the progress bar of a card that
\* is not the active one does not move the playback position, and no seek
\* is applied while no card is active.
C36_StaleBarDoesNotSeek ==
    [][ /\ hist'.op = "seek.other" => aud'.time = aud.time
        /\ ( /\ hist'.op \in {"seek.card", "seek.other", "seek.drag", "seek.sticky"}
             /\ ui.currentPlayingId = 0 ) => aud'.time = aud.time
        /\ ( /\ hist'.op = "seek.drag"
             /\ ui.drag # ui.currentPlayingId ) => aud'.time = aud.time ]_vars

\* C37: paused spans are counted by the recording timer and by stop() alike:
\* when the stop of a session that is being saved resolves, the seconds the
\* timer shows and the duration stop() returns differ by one second at most,
\* however the session was paused and resumed.
C37_TimerAgreesWithDuration ==
    [][ \A t \in TaskIds :
          (tasks[t].k # "save" /\ tasks'[t].k = "save") =>
              /\ app'.timer - tasks'[t].id <= 1
              /\ tasks'[t].id - app'.timer <= 1 ]_vars

\* C38: a start() that fails after the permission was granted does not keep
\* the microphone: once it has failed, with the application not recording
\* and no async function suspended, the stream of the AudioRecorder is not
\* a live one.
C38_FailedStartReleasesStream ==
    ( /\ hist.ret.error = "StartFailed"
      /\ ~app.isRecording
      /\ \A t \in TaskIds : tasks[t] = NoTask ) => rec.stream \notin host.streams

\* C39: a recording deleted from the storage is not the active playback
\* target: the active id, when there is one, is the id of a stored recording.
C39_DeletedIsNotActive ==
    ui.currentPlayingId # 0 => HasCard(Cur, ui.currentPlayingId)

=============================================================================
